---- MODULE Spec2Model ----
(***************************************************************************)
(* dreampipe: one invocation of Runner.Run (internal/app/runner.go) with   *)
(* the helpers it calls: resolveInstruction, Streams.ReadAllFromStdin,     *)
(* prompt.Build, llm.GetClient, Client.Generate under a context deadline,  *)
(* Streams.WriteToStdout, and the MarkdownCodeBlockFilter.                 *)
(*                                                                         *)
(* Text is a sequence of one-character strings, so that trimming,          *)
(* splitting and prefix tests are computed character by character.         *)
(* Provider names, URLs, keys and model names are only ever compared for   *)
(* equality (with each other or with ""), so they are plain strings.       *)
(***************************************************************************)
EXTENDS Integers, Sequences, FiniteSets, TLC

VARIABLES
    \* --- environment ---
    scriptFile,         \* the file at the script path: [readable, content]
    stdinData,          \* the bytes the producer will put on standard input
    backendReply,       \* the text the backend answers with, if it answers
    \* --- Runner fields (NewRunner) ---
    config,             \* config.Config
    debug,              \* Runner.debug
    \* --- arguments and locals of Run ---
    mode,               \* RunMode
    instructionOrPath,  \* second argument of Run
    pc,                 \* position of Run
    userInstruction,    \* result of resolveInstruction
    stdinPos,           \* bytes io.ReadAll has consumed so far
    stdinEOF,           \* io.ReadAll has seen end-of-stream
    inputData,          \* string(inputDataBytes)
    finalPrompt,        \* prompt.Build(...)
    llmClient,          \* client returned by llm.GetClient
    ctxErr,             \* ctx.Err(): "none" (no ctx yet), "nil", "DeadlineExceeded", "Canceled"
    llmResponse,        \* first result of Generate
    genErr,             \* second result of Generate
    retErr,             \* the error Run returned (NoErr while running / on success)
    failedAt,           \* the step at which Run returned an error
    \* --- observable effects ---
    stdout,             \* bytes written to Streams.Out
    stderr,             \* messages written to Streams.Err
    factoryCalls,       \* number of calls of llm.GetClient
    generateCalls,      \* number of calls of Client.Generate
    promptSent,         \* the prompt Generate was called with
    \* --- a call of prompt.Build on its own ---
    buildArgs,          \* the four arguments of Build
    buildOut,           \* the strings Build has returned, in order
    \* --- a call of MarkdownCodeBlockFilter.Apply on its own ---
    filterCase,         \* how the input was made: raw, or a text put between fences
    filterInput,        \* the argument of Apply
    filterOut,          \* the outcomes of Apply, then of Apply on its own result
    \* --- a call of config.Load on its own ---
    loadIn,             \* the file system state and the answers typed by the user
    loadOut,            \* what Load returned and did
    \* --- main ---
    mainIn,             \* the command line and what main finds in the environment
    mainPc,             \* position of main
    exitCode            \* status passed to os.Exit, -1 while the process runs

vars == <<scriptFile, stdinData, backendReply, config, debug, mode, instructionOrPath, pc,
          userInstruction, stdinPos, stdinEOF, inputData, finalPrompt,
          llmClient, ctxErr, llmResponse, genErr, retErr, failedAt,
          stdout, stderr, factoryCalls, generateCalls, promptSent,
          buildArgs, buildOut, filterCase, filterInput, filterOut,
          loadIn, loadOut, mainIn, mainPc, exitCode>>

----------------------------------------------------------------------------
(* Bounds of the explored inputs *)

MaxFileLen == 4         \* longest script file, in characters
MaxArgLen == 2          \* longest ad-hoc instruction argument
MaxStdinLen == 2        \* longest standard input
MaxLines == 3           \* most lines in a provider response
MaxEntries == 1         \* most entries in the [llms] map
MaxTimeoutSeconds == 2  \* largest configured request timeout

----------------------------------------------------------------------------
(* Text helpers: Go's strings and bytes packages *)

NL == "\n"

\* unicode.IsSpace restricted to the characters of the model
IsSpace(c) == c \in {" ", "\n", "\t", "\r"}

RECURSIVE TrimLeft(_)
TrimLeft(s) ==
    IF s = <<>> THEN <<>>
    ELSE IF IsSpace(Head(s)) THEN TrimLeft(Tail(s)) ELSE s

RECURSIVE TrimRight(_)
TrimRight(s) ==
    IF s = <<>> THEN <<>>
    ELSE IF IsSpace(s[Len(s)]) THEN TrimRight(SubSeq(s, 1, Len(s) - 1)) ELSE s

\* strings.TrimSpace
TrimSpace(s) == TrimRight(TrimLeft(s))

\* strings.HasPrefix
HasPrefix(s, p) == Len(s) >= Len(p) /\ SubSeq(s, 1, Len(p)) = p

\* strings.HasSuffix
HasSuffix(s, p) == Len(s) >= Len(p) /\ SubSeq(s, Len(s) - Len(p) + 1, Len(s)) = p

\* bytes.IndexByte: 0-based index of the first c in s, -1 when there is none
IndexByte(s, c) ==
    IF \E i \in 1..Len(s) : s[i] = c
    THEN (CHOOSE i \in 1..Len(s) : s[i] = c /\ \A j \in 1..(i - 1) : s[j] # c) - 1
    ELSE -1

\* strings.Split(s, "\n"): always at least one line
RECURSIVE Split(_)
Split(s) ==
    LET i == IndexByte(s, NL)
    IN  IF i = -1 THEN <<s>>
        ELSE <<SubSeq(s, 1, i)>> \o Split(SubSeq(s, i + 2, Len(s)))

\* strings.Join(lines, "\n")
RECURSIVE Join(_)
Join(lines) ==
    IF lines = <<>> THEN <<>>
    ELSE IF Len(lines) = 1 THEN lines[1]
    ELSE lines[1] \o <<NL>> \o Join(Tail(lines))

\* all sequences over S of length at most n
SeqsUpTo(S, n) == UNION {[1..k -> S] : k \in 0..n}

----------------------------------------------------------------------------
(* Errors and messages *)

\* an error value: its kind and, where the message names one, the provider
Err(kind, provider) == [kind |-> kind, provider |-> provider]
NoErr == Err("nil", "")

\* one line written to the error stream
Msg(level, text, err) == [level |-> level, text |-> text, err |-> err]

\* Streams.WriteErrorToStderr
WriteErrorToStderr(log, text, err) == Append(log, Msg("error", text, err))

\* mutant: informational messages are written whatever the debug flag is
LogInfoAlways(log, dbg, text) == Append(log, Msg("info", text, NoErr))

\* Runner.LogInfo / Streams.WriteInfoToStderr: only in debug mode
LogInfo(log, dbg, text) == IF dbg THEN Append(log, Msg("info", text, NoErr)) ELSE log

----------------------------------------------------------------------------
(* resolveInstruction *)

ModeAdHoc == 0
ModeScript == 1

\* iohandler.ReadAllFromFile fails on a path that cannot be opened
Unreadable == [readable |-> FALSE, content |-> <<>>]
FileOf(content) == [readable |-> TRUE, content |-> content]

\* mutant: the first line is not dropped
AfterFirstNewlineKeepsAll(content) == content

\* the script content after its first newline (scriptContentBytes[firstNewline+1:])
AfterFirstNewline(content) ==
    SubSeq(content, IndexByte(content, NL) + 2, Len(content))

\* resolveInstruction(mode, instructionOrPath): [instruction, err]
resolveInstruction(m, arg, file) ==
    IF m = ModeAdHoc THEN
        IF arg = <<>> THEN [instruction |-> <<>>, err |-> Err("adhocEmpty", "")]
        ELSE [instruction |-> TrimSpace(arg), err |-> NoErr]
    ELSE IF m = ModeScript THEN
        IF arg = <<>> THEN [instruction |-> <<>>, err |-> Err("scriptNoPath", "")]
        ELSE IF ~file.readable THEN [instruction |-> <<>>, err |-> Err("readScript", "")]
        ELSE IF IndexByte(file.content, NL) = -1 THEN
            IF HasPrefix(file.content, <<"#", "!">>)
            THEN [instruction |-> <<>>, err |-> Err("shebangOnly", "")]
            ELSE [instruction |-> TrimSpace(file.content), err |-> NoErr]
        ELSE [instruction |-> TrimSpace(AfterFirstNewline(file.content)), err |-> NoErr]
    ELSE [instruction |-> <<>>, err |-> Err("unknownMode", "")]

\* mutant: Run does not check the resolved instruction
InstructionIsEmptyUnchecked(instruction) == FALSE

\* Run's own check of the resolved instruction (runner.go: userInstruction == "")
InstructionIsEmpty(instruction) == instruction = <<>>

----------------------------------------------------------------------------
(* prompt.Build *)

\* the static role prefix, abbreviated to one character
agentPrompt == <<"A">>

Delimiter == <<NL, NL, "-", "-", "-", NL, NL>>
ContextHeader == <<"C", "o", "n", "t", "e", "x", "t", ":", NL, NL>>
TaskHeader == <<"Y", "o", "u", "r", " ", "t", "a", "s", "k", ":", NL, NL>>
InputHeader == <<"I", "n", "p", "u", "t", ":", NL, NL>>

\* mutant: the input section is written before the task section
BuildInputFirst(agent, userTask, input, contextData) ==
    TrimSpace(agent) \o Delimiter \o InputHeader \o TrimSpace(input)
        \o Delimiter \o TaskHeader \o TrimSpace(userTask)

\* mutant: the task is put into the prompt as it came, untrimmed
BuildTaskUntrimmed(agent, userTask, input, contextData) ==
    LET a == TrimSpace(agent)
        i == TrimSpace(input)
        c == TrimSpace(contextData)
    IN  IF c = <<>>
        THEN a \o Delimiter \o TaskHeader \o userTask \o Delimiter \o InputHeader \o i
        ELSE a \o Delimiter \o ContextHeader \o c \o Delimiter \o TaskHeader \o userTask
               \o Delimiter \o InputHeader \o i

\* mutant: the context is tested for emptiness before it is trimmed
BuildContextUntrimmed(agent, userTask, input, contextData) ==
    LET a == TrimSpace(agent)
        t == TrimSpace(userTask)
        i == TrimSpace(input)
        c == TrimSpace(contextData)
    IN  IF contextData = <<>>
        THEN a \o Delimiter \o TaskHeader \o t \o Delimiter \o InputHeader \o i
        ELSE a \o Delimiter \o ContextHeader \o c \o Delimiter \o TaskHeader \o t
               \o Delimiter \o InputHeader \o i

\* builder.go 37-61
Build(agent, userTask, input, contextData) ==
    LET a == TrimSpace(agent)
        t == TrimSpace(userTask)
        i == TrimSpace(input)
        c == TrimSpace(contextData)
    IN  IF c = <<>>
        THEN a \o Delimiter \o TaskHeader \o t \o Delimiter \o InputHeader \o i
        ELSE a \o Delimiter \o ContextHeader \o c \o Delimiter \o TaskHeader \o t
               \o Delimiter \o InputHeader \o i

----------------------------------------------------------------------------
(* llm.GetClient *)

DefaultTimeoutSeconds == 60

LLMConfig(baseURL, apiKey, model) == [BaseURL |-> baseURL, APIKey |-> apiKey, Model |-> model]

\* a client handle: what the constructor was given
Client(provider, baseURL, apiKey, model, hasTimeout, timeout) ==
    [provider |-> provider, baseURL |-> baseURL, apiKey |-> apiKey, model |-> model,
     hasTimeout |-> hasTimeout, timeout |-> timeout]
NoClient == Client("", "", "", "", FALSE, 0)

\* the constructors of the three provider packages
GeminiNewClient(apiKey, model) == Client("gemini", "", apiKey, model, FALSE, 0)
OllamaNewClient(baseURL, model, timeout) == Client("ollama", baseURL, "", model, TRUE, timeout)
GroqNewClient(apiKey, model, timeout) == Client("groq", "", apiKey, model, TRUE, timeout)

\* requestTimeout of GetClient
EffectiveTimeout(cfg) ==
    IF cfg.RequestTimeoutSeconds <= 0 THEN DefaultTimeoutSeconds ELSE cfg.RequestTimeoutSeconds

\* mutant: the factory does not check that the entry exists
HasEntryUnchecked(cfg, name) == TRUE

\* cfg.LLMs[providerName] exists
HasEntry(cfg, name) == name \in DOMAIN cfg.LLMs

\* cfg.LLMs[providerName]: a Go map yields the zero value for a missing key
Lookup(cfg, name) ==
    IF name \in DOMAIN cfg.LLMs THEN cfg.LLMs[name] ELSE LLMConfig("", "", "")

\* mutant: the factory does not check Groq's API key
GroqKeyUnchecked(llmCfg) == FALSE

\* the provider's required credential / endpoint is empty
GeminiKeyMissing(llmCfg) == llmCfg.APIKey = ""
OllamaURLMissing(llmCfg) == llmCfg.BaseURL = ""
GroqKeyMissing(llmCfg) == llmCfg.APIKey = ""

\* mutant: every name that has an entry is served by the ollama client
GetClientAnyName(cfg) ==
    LET providerName == cfg.DefaultProvider
        llmCfg == Lookup(cfg, providerName)
    IN  IF providerName = ""
        THEN [client |-> NoClient, err |-> Err("noDefaultProvider", "")]
        ELSE IF ~HasEntry(cfg, providerName)
        THEN [client |-> NoClient, err |-> Err("providerNotFound", providerName)]
        ELSE [client |-> OllamaNewClient(llmCfg.BaseURL, llmCfg.Model, EffectiveTimeout(cfg)),
              err |-> NoErr]

\* GetClient(cfg): [client, err]
GetClient(cfg) ==
    LET providerName == cfg.DefaultProvider
        fail(e) == [client |-> NoClient, err |-> e]
        ok(c) == [client |-> c, err |-> NoErr]
    IN  IF providerName = "" THEN fail(Err("noDefaultProvider", ""))
        ELSE IF ~HasEntry(cfg, providerName) THEN fail(Err("providerNotFound", providerName))
        ELSE LET llmCfg == Lookup(cfg, providerName)
                 requestTimeout == EffectiveTimeout(cfg)
             IN  IF providerName = "gemini" THEN
                     IF GeminiKeyMissing(llmCfg) THEN fail(Err("geminiKeyMissing", ""))
                     ELSE ok(GeminiNewClient(llmCfg.APIKey, llmCfg.Model))
                 ELSE IF providerName = "ollama" THEN
                     IF OllamaURLMissing(llmCfg) THEN fail(Err("ollamaURLMissing", ""))
                     ELSE ok(OllamaNewClient(llmCfg.BaseURL, llmCfg.Model, requestTimeout))
                 ELSE IF providerName = "groq" THEN
                     IF GroqKeyMissing(llmCfg) THEN fail(Err("groqKeyMissing", ""))
                     ELSE ok(GroqNewClient(llmCfg.APIKey, llmCfg.Model, requestTimeout))
                 ELSE fail(Err("unsupportedProvider", providerName))

\* config.defaultConfig()
defaultConfig ==
    [DefaultProvider |-> "ollama",
     RequestTimeoutSeconds |-> 60,
     LLMs |-> [n \in {"ollama", "gemini", "groq"} |->
                 IF n = "ollama" THEN LLMConfig("http://localhost:11434", "", "")
                 ELSE LLMConfig("", "", "")]]

----------------------------------------------------------------------------
(* MarkdownCodeBlockFilter.Apply *)

\* the backquote character (U+0060), written as a caret
BQ == "^"

Fence == <<BQ, BQ, BQ>>

\* mutant: the scan stops at the first fence line from the top
FirstFenceIndex(lines) ==
    IF \E i \in 1..Len(lines) : TrimSpace(lines[i]) = Fence
    THEN (CHOOSE i \in 1..Len(lines) :
            /\ TrimSpace(lines[i]) = Fence
            /\ \A j \in 1..(i - 1) : TrimSpace(lines[j]) # Fence) - 1
    ELSE -1

\* the loop of lines 107-113: index (0-based) of the last line that, trimmed,
\* is exactly the fence, -1 when there is none; the scan includes line 0
LastFenceIndex(lines) ==
    IF \E i \in 1..Len(lines) : TrimSpace(lines[i]) = Fence
    THEN (CHOOSE i \in 1..Len(lines) :
            /\ TrimSpace(lines[i]) = Fence
            /\ \A j \in (i + 1)..Len(lines) : TrimSpace(lines[j]) # Fence) - 1
    ELSE -1

\* mutant: every first line counts as an opening fence
OpensFenceAlways(firstLine) == TRUE

\* mutant: only a fence without a language tag counts as an opening fence
OpensFenceExact(firstLine) == firstLine = Fence

\* line 115: strings.HasPrefix(firstLine, fence)
OpensFence(firstLine) == HasPrefix(firstLine, Fence)

\* mutant: the slice runs up to and including the closing fence line
BetweenInclusive(lines, lastLineIndex) == SubSeq(lines, 2, lastLineIndex + 1)

\* line 123: lines[1:lastLineIndex]
Between(lines, lastLineIndex) == SubSeq(lines, 2, lastLineIndex)

\* mutant: the newline is kept whether or not there is content
KeepsNewlineEvenIfEmpty(input, output) == HasSuffix(input, <<NL>>)

\* line 130: the input ended with a newline and there is content
KeepsNewline(input, output) == HasSuffix(input, <<NL>>) /\ Len(output) > 0

\* Apply(input): [panics, out]; lines[1:lastLineIndex] faults when lastLineIndex < 1
Apply(input) ==
    LET lines == Split(input)
        firstLine == TrimSpace(lines[1])
        lastLineIndex == LastFenceIndex(lines)
        output == Join(Between(lines, lastLineIndex))
    IN  IF Len(lines) < 2 THEN [panics |-> FALSE, out |-> input]
        ELSE IF OpensFence(firstLine) /\ lastLineIndex # -1 THEN
            IF lastLineIndex = 1 THEN [panics |-> FALSE, out |-> <<>>]
            ELSE IF lastLineIndex < 1 THEN [panics |-> TRUE, out |-> <<>>]
            ELSE IF KeepsNewline(input, output)
                 THEN [panics |-> FALSE, out |-> output \o <<NL>>]
                 ELSE [panics |-> FALSE, out |-> output]
        ELSE [panics |-> FALSE, out |-> input]

----------------------------------------------------------------------------
(* Streams.WriteToStdout *)

\* what the Out writer does with the two Write calls: the first accepts
\* 'accepted' bytes of the data (all of them iff dataOK), the second (the
\* newline) succeeds iff newlineOK
WriteOutcomes(data) ==
    {[dataOK |-> TRUE, accepted |-> Len(data), newlineOK |-> b] : b \in BOOLEAN}
    \cup {[dataOK |-> FALSE, accepted |-> n, newlineOK |-> TRUE] : n \in {0, Len(data) - 1} \cap Nat}

\* the data does not already end with a newline
NeedsNewline(data) == Len(data) > 0 /\ data[Len(data)] # NL

\* WriteToStdout(data) on an Out stream holding `out`: [out, err]
WriteToStdout(out, data, o) ==
    IF ~o.dataOK
    THEN [out |-> out \o SubSeq(data, 1, o.accepted), err |-> Err("stdoutWrite", "")]
    ELSE IF NeedsNewline(data) THEN
        IF o.newlineOK
        THEN [out |-> out \o data \o <<NL>>, err |-> NoErr]
        ELSE [out |-> out \o data, err |-> Err("stdoutNewline", "")]
    ELSE [out |-> out \o data, err |-> NoErr]

----------------------------------------------------------------------------
(* The inputs explored *)

FileChars == {"#", "!", "x", " ", NL}
Files == {Unreadable} \cup {FileOf(c) : c \in SeqsUpTo(FileChars, MaxFileLen)}

ArgChars == {"x", " "}
Args == SeqsUpTo(ArgChars, MaxArgLen)

ScriptPath == <<"p">>

StdinChars == {"h", NL}
Stdins == SeqsUpTo(StdinChars, MaxStdinLen)

ResponseLines == {<<>>, Fence, Fence \o <<"j">>, <<"a">>}
Responses == {Join(ls) : ls \in SeqsUpTo(ResponseLines, MaxLines)}

ProviderNames == {"gemini", "ollama", "groq", "other"}
LLMConfigs == {LLMConfig(u, k, m) : u \in {"", "http://h"}, k \in {"", "k"}, m \in {"", "m"}}
LLMMaps ==
    UNION {[D -> LLMConfigs] : D \in {S \in SUBSET ProviderNames : Cardinality(S) <= MaxEntries}}
Configs ==
    [DefaultProvider : ProviderNames \cup {""},
     RequestTimeoutSeconds : (-1)..MaxTimeoutSeconds,
     LLMs : LLMMaps]

\* how Run is invoked: mode, argument, and the file the argument may name
Invocation(m, arg, file) == [mode |-> m, arg |-> arg, file |-> file]
Invocations ==
    {Invocation(ModeAdHoc, a, Unreadable) : a \in Args}
    \cup {Invocation(ModeScript, ScriptPath, f) : f \in Files}
    \cup {Invocation(ModeScript, <<>>, Unreadable), Invocation(2, <<"x">>, Unreadable)}

BasicInvocation == Invocation(ModeAdHoc, <<"x">>, Unreadable)
BasicStdin == <<"h">>
BasicReply == <<"a">>

\* each input ranges over its whole set while the others take their basic value
InputCases ==
    {[inv |-> i, cfg |-> defaultConfig, stdin |-> BasicStdin, reply |-> BasicReply] :
        i \in Invocations}
    \cup {[inv |-> BasicInvocation, cfg |-> c, stdin |-> BasicStdin, reply |-> BasicReply] :
        c \in Configs}
    \cup {[inv |-> BasicInvocation, cfg |-> defaultConfig, stdin |-> d, reply |-> BasicReply] :
        d \in Stdins}
    \cup {[inv |-> BasicInvocation, cfg |-> defaultConfig, stdin |-> BasicStdin, reply |-> r] :
        r \in Responses}

----------------------------------------------------------------------------
(* State of the stand-alone calls of Build and Apply *)

buildVars == <<buildArgs, buildOut>>
filterVars == <<filterCase, filterInput, filterOut>>
loadVars == <<loadIn, loadOut>>
mainVars == <<mainIn, mainPc, exitCode>>

BuildArgs(agent, userTask, input, contextData) ==
    [agentPrompt |-> agent, userTask |-> userTask, inputData |-> input,
     contextData |-> contextData]

\* no stand-alone call of Build is under way
BuildIdle ==
    /\ buildArgs = BuildArgs(<<>>, <<>>, <<>>, <<>>)
    /\ buildOut = <<>>

RawCase == [wrapped |-> FALSE, text |-> <<>>, tag |-> <<>>, newline |-> FALSE]

\* no stand-alone call of Apply is under way
FilterIdle ==
    /\ filterCase = RawCase
    /\ filterInput = <<>>
    /\ filterOut = <<>>

\* no stand-alone call of Load is under way
LoadIdle ==
    /\ loadIn = [kind |-> "none"]
    /\ loadOut = <<>>

\* main is not executing
MainIdle ==
    /\ mainIn = [kind |-> "none"]
    /\ mainPc = "Idle"
    /\ exitCode = -1

----------------------------------------------------------------------------
(* Runner.Run *)

Init ==
    \E in \in InputCases, d \in BOOLEAN :
        /\ scriptFile = in.inv.file
        /\ stdinData = in.stdin
        /\ backendReply = in.reply
        /\ config = in.cfg
        /\ debug = d
        /\ mode = in.inv.mode
        /\ instructionOrPath = in.inv.arg
        /\ pc = "ResolveInstruction"
        /\ userInstruction = <<>>
        /\ stdinPos = 0
        /\ stdinEOF = FALSE
        /\ inputData = <<>>
        /\ finalPrompt = <<>>
        /\ llmClient = NoClient
        /\ ctxErr = "none"
        /\ llmResponse = <<>>
        /\ genErr = NoErr
        /\ retErr = NoErr
        /\ failedAt = ""
        /\ stdout = <<>>
        /\ stderr = <<>>
        /\ factoryCalls = 0
        /\ generateCalls = 0
        /\ promptSent = <<>>
        /\ BuildIdle
        /\ FilterIdle
        /\ LoadIdle
        /\ MainIdle

envVars == <<scriptFile, stdinData, backendReply, config, debug, mode, instructionOrPath>>

\* mutant: after a failed instruction resolution Run goes on to read the input
ResolveErrorContinues(step) ==
    IF step = "ResolveInstruction" THEN "ReadInput" ELSE "Failed"

\* every error branch of Run is a return: the run is over at whichever step
AfterError(step) == "Failed"

\* Run writes the error and returns it
Fail(step, log, text, err) ==
    /\ pc' = AfterError(step)
    /\ failedAt' = step
    /\ retErr' = err
    /\ stderr' = WriteErrorToStderr(log, text, err)

\* defer cancel(): a context that has not expired becomes cancelled
Cancel(c) == IF c = "nil" THEN "Canceled" ELSE c

\* runner.go 47-67: resolve the instruction, reject an empty one
ResolveInstruction ==
    /\ pc = "ResolveInstruction"
    /\ LET r == resolveInstruction(mode, instructionOrPath, scriptFile)
       IN  IF r.err # NoErr THEN
               /\ Fail("ResolveInstruction", stderr, "Error determining instruction: %v", r.err)
               /\ UNCHANGED userInstruction
           ELSE IF InstructionIsEmpty(r.instruction) THEN
               /\ Fail("ResolveInstruction", stderr, "Error: %v", Err("emptyInstruction", ""))
               /\ userInstruction' = r.instruction
           ELSE
               /\ userInstruction' = r.instruction
               /\ stderr' = LogInfo(LogInfo(stderr, debug /\ mode = ModeScript,
                                            "Using instruction from script '%s'"),
                                    debug, "Reading from stdin...")
               /\ pc' = "ReadInput"
               /\ UNCHANGED <<failedAt, retErr>>
    /\ UNCHANGED <<buildVars, filterVars, loadVars, mainVars>>
    /\ UNCHANGED <<envVars, stdinPos, stdinEOF, inputData, finalPrompt, llmClient, ctxErr,
                   llmResponse, genErr, stdout, factoryCalls, generateCalls, promptSent>>

\* mutant: the read returns after the first chunk
ReadAllDoneEarly(pos, data) == pos >= 1 \/ pos = Len(data)

\* io.ReadAll returns without error only once Read has reported end-of-stream
ReadAllDone(pos, data) == pos = Len(data)

\* io.ReadAll: one Read call that returns some of the remaining bytes
ReadStdinChunk ==
    /\ pc = "ReadInput"
    /\ stdinPos < Len(stdinData)
    /\ \E k \in 1..(Len(stdinData) - stdinPos) : stdinPos' = stdinPos + k
    /\ UNCHANGED <<buildVars, filterVars, loadVars, mainVars>>
    /\ UNCHANGED <<envVars, pc, userInstruction, stdinEOF, inputData, finalPrompt, llmClient,
                   ctxErr, llmResponse, genErr, retErr, failedAt, stdout, stderr,
                   factoryCalls, generateCalls, promptSent>>

\* runner.go 68-88: ReadAllFromStdin returns the data; build the prompt
ReadStdinEOF ==
    /\ pc = "ReadInput"
    /\ ReadAllDone(stdinPos, stdinData)
    /\ stdinEOF' = (stdinPos = Len(stdinData))
    /\ inputData' = SubSeq(stdinData, 1, stdinPos)
    /\ finalPrompt' = Build(agentPrompt, userInstruction, inputData', <<>>)
    /\ stderr' = LogInfo(LogInfo(stderr, debug, "Finished reading stdin (%d bytes)"),
                         debug, "Initializing LLM client for provider: %s")
    /\ pc' = "InitClient"
    /\ UNCHANGED <<buildVars, filterVars, loadVars, mainVars>>
    /\ UNCHANGED <<envVars, userInstruction, stdinPos, llmClient, ctxErr, llmResponse, genErr,
                   retErr, failedAt, stdout, factoryCalls, generateCalls, promptSent>>

\* runner.go 69-72: a Read call fails
ReadStdinError ==
    /\ pc = "ReadInput"
    /\ Fail("ReadInput", stderr, "Error reading from stdin: %v", Err("stdinRead", ""))
    /\ UNCHANGED <<buildVars, filterVars, loadVars, mainVars>>
    /\ UNCHANGED <<envVars, userInstruction, stdinPos, stdinEOF, inputData, finalPrompt,
                   llmClient, ctxErr, llmResponse, genErr, stdout, factoryCalls,
                   generateCalls, promptSent>>

\* context.WithTimeout(d): a duration that is not positive gives an expired context
WithTimeout(seconds) == IF seconds <= 0 THEN "DeadlineExceeded" ELSE "nil"

\* runner.go 89-112: get the client, set the deadline, call Generate
InitClient ==
    /\ pc = "InitClient"
    /\ factoryCalls' = factoryCalls + 1
    /\ LET r == GetClient(config)
       IN  IF r.err # NoErr THEN
               /\ Fail("InitClient", stderr, "Error initializing LLM client: %v", r.err)
               /\ UNCHANGED <<llmClient, ctxErr, generateCalls, promptSent>>
           ELSE
               /\ llmClient' = r.client
               /\ ctxErr' = WithTimeout(config.RequestTimeoutSeconds)
               /\ stderr' = LogInfo(stderr, debug, "Sending request to LLM...")
               /\ generateCalls' = generateCalls + 1
               /\ promptSent' = finalPrompt
               /\ pc' = "Dispatch"
               /\ UNCHANGED <<failedAt, retErr>>
    /\ UNCHANGED <<buildVars, filterVars, loadVars, mainVars>>
    /\ UNCHANGED <<envVars, userInstruction, stdinPos, stdinEOF, inputData, finalPrompt,
                   llmResponse, genErr, stdout>>

\* the context's timer fires while the context is live
DeadlineTimer ==
    /\ pc \in {"Dispatch", "GenerateReturned"}
    /\ ctxErr = "nil"
    /\ ctxErr' = "DeadlineExceeded"
    /\ UNCHANGED <<buildVars, filterVars, loadVars, mainVars>>
    /\ UNCHANGED <<envVars, pc, userInstruction, stdinPos, stdinEOF, inputData, finalPrompt,
                   llmClient, llmResponse, genErr, retErr, failedAt, stdout, stderr,
                   factoryCalls, generateCalls, promptSent>>

\* Generate returns (llmResponse, genErr)
GenerateReturns(response, err) ==
    /\ llmResponse' = response
    /\ genErr' = err
    /\ pc' = "GenerateReturned"
    /\ UNCHANGED <<buildVars, filterVars, loadVars, mainVars>>
    /\ UNCHANGED <<envVars, userInstruction, stdinPos, stdinEOF, inputData, finalPrompt,
                   llmClient, ctxErr, retErr, failedAt, stdout, stderr, factoryCalls,
                   generateCalls, promptSent>>

\* the backend answers within the deadline and the answer parses
GenerateResponds ==
    /\ pc = "Dispatch"
    /\ ctxErr = "nil"
    /\ GenerateReturns(backendReply, NoErr)

\* the backend answers within the deadline with a non-success status or a body
\* of the wrong shape
GenerateRejected ==
    /\ pc = "Dispatch"
    /\ ctxErr = "nil"
    /\ GenerateReturns(<<>>, Err("ProviderError", llmClient.provider))

\* the deadline passes before the backend answers: the request is cancelled
GenerateDeadline ==
    /\ pc = "Dispatch"
    /\ ctxErr = "DeadlineExceeded"
    /\ GenerateReturns(<<>>, Err("DeadlineExceeded", ""))

\* mutant: the expiry of the context is never recognised
DeadlineNeverRecognised(c) == FALSE

\* runner.go 116: ctx.Err() == context.DeadlineExceeded
DeadlineWasExceeded(c) == c = "DeadlineExceeded"

\* mutant: a failed request sends Run back to build a client and ask again
GenerateErrorRetries == "InitClient"

\* runner.go 119: return err, the run ends with the error Generate returned
GenerateErrorStep == "Failed"

\* runner.go 113-121: report a Generate error, with the timed-out message when
\* the context has expired
HandleGenerate ==
    /\ pc = "GenerateReturned"
    /\ IF genErr # NoErr THEN
           /\ stderr' =
                LET reported == WriteErrorToStderr(stderr, "Error during LLM request: %v", genErr)
                IN  IF DeadlineWasExceeded(ctxErr)
                    THEN WriteErrorToStderr(reported, "LLM request timed out after %d seconds", NoErr)
                    ELSE reported
           /\ pc' = GenerateErrorStep
           /\ failedAt' = "Dispatch"
           /\ retErr' = genErr
           /\ ctxErr' = Cancel(ctxErr)
       ELSE
           /\ stderr' = LogInfo(stderr, debug, "Received LLM response")
           /\ pc' = "WriteOutput"
           /\ UNCHANGED <<ctxErr, failedAt, retErr>>
    /\ UNCHANGED <<buildVars, filterVars, loadVars, mainVars>>
    /\ UNCHANGED <<envVars, userInstruction, stdinPos, stdinEOF, inputData, finalPrompt,
                   llmClient, llmResponse, genErr, stdout, factoryCalls, generateCalls,
                   promptSent>>

\* runner.go 124-133: write the response to standard output
WriteOutput ==
    /\ pc = "WriteOutput"
    /\ \E o \in WriteOutcomes(llmResponse) :
         LET w == WriteToStdout(stdout, llmResponse, o)
         IN  /\ stdout' = w.out
             /\ IF w.err # NoErr THEN
                    Fail("WriteOutput", stderr, "Error writing LLM response to stdout: %v", w.err)
                ELSE
                    /\ stderr' = LogInfo(stderr, debug, "Done.")
                    /\ pc' = "Done"
                    /\ UNCHANGED <<failedAt, retErr>>
    /\ ctxErr' = Cancel(ctxErr)
    /\ UNCHANGED <<buildVars, filterVars, loadVars, mainVars>>
    /\ UNCHANGED <<envVars, userInstruction, stdinPos, stdinEOF, inputData, finalPrompt,
                   llmClient, llmResponse, genErr, factoryCalls, generateCalls, promptSent>>

Next ==
    \/ ResolveInstruction
    \/ ReadStdinChunk
    \/ ReadStdinEOF
    \/ ReadStdinError
    \/ InitClient
    \/ DeadlineTimer
    \/ GenerateResponds
    \/ GenerateRejected
    \/ GenerateDeadline
    \/ HandleGenerate
    \/ WriteOutput

Spec == Init /\ [][Next]_vars

\* Run has not been called: its fields, arguments and locals are unset
RunNotStarted ==
    /\ config = defaultConfig
    /\ debug = FALSE
    /\ mode = ModeAdHoc
    /\ instructionOrPath = <<>>
    /\ pc = "Idle"
    /\ userInstruction = <<>>
    /\ stdinPos = 0
    /\ stdinEOF = FALSE
    /\ inputData = <<>>
    /\ finalPrompt = <<>>
    /\ llmClient = NoClient
    /\ ctxErr = "none"
    /\ llmResponse = <<>>
    /\ genErr = NoErr
    /\ retErr = NoErr
    /\ failedAt = ""
    /\ stdout = <<>>
    /\ stderr = <<>>
    /\ factoryCalls = 0
    /\ generateCalls = 0
    /\ promptSent = <<>>

\* Run is not executing: its variables hold their values before any call
RunIdle ==
    /\ scriptFile = Unreadable
    /\ stdinData = <<>>
    /\ backendReply = <<>>
    /\ RunNotStarted

runVars == <<envVars, pc, userInstruction, stdinPos, stdinEOF, inputData, finalPrompt,
             llmClient, ctxErr, llmResponse, genErr, retErr, failedAt,
             stdout, stderr, factoryCalls, generateCalls, promptSent>>

----------------------------------------------------------------------------
(* prompt.Build called on its own, with any four segments *)

MaxSegLen == 2

SegChars == {"x", " "}

\* a segment that spells the end of a delimiter followed by the context label
LabelSegment == <<"-", "-", "-", NL, NL, "C", "o", "n", "t", "e", "x", "t", ":">>

Segments == SeqsUpTo(SegChars, MaxSegLen) \cup {LabelSegment}

Preambles == {agentPrompt, <<" ">> \o agentPrompt \o <<NL>>}

InitBuild ==
    /\ RunIdle
    /\ FilterIdle
    /\ LoadIdle
    /\ MainIdle
    /\ \E a \in Preambles, t \in Segments, i \in SeqsUpTo(SegChars, MaxSegLen), c \in Segments :
           buildArgs = BuildArgs(a, t, i, c)
    /\ buildOut = <<>>

\* builder.go 37-61: one call of Build with the drawn arguments
CallBuild ==
    /\ buildOut = <<>>
    /\ buildOut' = <<Build(buildArgs.agentPrompt, buildArgs.userTask,
                           buildArgs.inputData, buildArgs.contextData)>>
    /\ UNCHANGED <<runVars, filterVars, loadVars, mainVars, buildArgs>>

\* a text without its leading and trailing whitespace, as a caller would
\* pass it who has already trimmed the segment
Stripped(s) ==
    IF \A k \in 1..Len(s) : IsSpace(s[k]) THEN <<>>
    ELSE LET lo == CHOOSE k \in 1..Len(s) :
                       ~IsSpace(s[k]) /\ \A j \in 1..(k - 1) : IsSpace(s[j])
             hi == CHOOSE k \in 1..Len(s) :
                       ~IsSpace(s[k]) /\ \A j \in (k + 1)..Len(s) : IsSpace(s[j])
         IN  SubSeq(s, lo, hi)

\* a second call of Build, with the same segments already trimmed
CallBuildTrimmed ==
    /\ Len(buildOut) = 1
    /\ buildOut' = Append(buildOut,
                          Build(Stripped(buildArgs.agentPrompt), Stripped(buildArgs.userTask),
                                Stripped(buildArgs.inputData), Stripped(buildArgs.contextData)))
    /\ UNCHANGED <<runVars, filterVars, loadVars, mainVars, buildArgs>>

NextBuild ==
    \/ CallBuild
    \/ CallBuildTrimmed

SpecBuild == InitBuild /\ [][NextBuild]_vars

----------------------------------------------------------------------------
(* MarkdownCodeBlockFilter.Apply called on its own, as the table test does *)

MaxFilterLines == 4
MaxTextLines == 2

\* a line is empty, a fence, a fence with a language tag, content, or a fence
\* with a space before it
FilterLines == {<<>>, Fence, Fence \o <<"j">>, <<"a">>, <<" ">> \o Fence}

\* inputs of up to MaxFilterLines lines, with and without a final newline
FilterInputs ==
    {Join(ls) \o tail : ls \in SeqsUpTo(FilterLines, MaxFilterLines), tail \in {<<>>, <<NL>>}}

FilterTexts == {Join(ls) : ls \in SeqsUpTo(FilterLines, MaxTextLines)}

\* the text between an opening fence line, with or without a language tag, and
\* a closing fence line, with or without a newline after it
Wrap(text, tag, newline) ==
    Fence \o tag \o <<NL>> \o text \o <<NL>> \o Fence
        \o (IF newline THEN <<NL>> ELSE <<>>)

InitFilter ==
    /\ RunIdle
    /\ BuildIdle
    /\ LoadIdle
    /\ MainIdle
    /\ filterOut = <<>>
    /\ \/ /\ filterCase = RawCase
          /\ filterInput \in FilterInputs
       \/ \E text \in FilterTexts, tag \in {<<>>, <<"j">>}, newline \in BOOLEAN :
             /\ filterCase = [wrapped |-> TRUE, text |-> text, tag |-> tag,
                              newline |-> newline]
             /\ filterInput = Wrap(text, tag, newline)

\* markdown_filter_test.go 79: filter.Apply(tt.input)
ApplyFilter ==
    /\ filterOut = <<>>
    /\ filterOut' = <<Apply(filterInput)>>
    /\ UNCHANGED <<runVars, buildVars, loadVars, mainVars, filterCase, filterInput>>

\* the filter applied to the text it returned
ApplyFilterAgain ==
    /\ Len(filterOut) = 1
    /\ ~filterOut[1].panics
    /\ filterOut' = Append(filterOut, Apply(filterOut[1].out))
    /\ UNCHANGED <<runVars, buildVars, loadVars, mainVars, filterCase, filterInput>>

NextFilter ==
    \/ ApplyFilter
    \/ ApplyFilterAgain

SpecFilter == InitFilter /\ [][NextFilter]_vars

----------------------------------------------------------------------------
(* config.Load called on its own *)

\* cfg.LLMs[k] = v
MapSet(m, k, v) == [n \in DOMAIN m \cup {k} |-> IF n = k THEN v ELSE m[n]]

\* delete(cfg.LLMs, k)
MapDelete(m, k) == [n \in DOMAIN m \ {k} |-> m[n]]

\* Config{}: the zero value Load returns with every error
ZeroConfig == [DefaultProvider |-> "", RequestTimeoutSeconds |-> 0, LLMs |-> <<>>]

\* what a call of Load gives: the two results, the lines it printed on standard
\* output, and whether the configuration file was written
LoadResult(cfg, err, printed, created) ==
    [cfg |-> cfg, err |-> err, printed |-> printed, created |-> created]

\* part_002 141-238: the possible (cfg, err) of the interactive creation; the
\* range over the map at line 208 may yield any key first
createConfigFileInteractive(cfg, in) ==
    LET ollamaKept == Lookup(cfg, "ollama").BaseURL # ""
        llms1 == IF in.ollamaURL # ""
                 THEN MapSet(cfg.LLMs, "ollama", LLMConfig(in.ollamaURL, "", ""))
                 ELSE IF ollamaKept THEN cfg.LLMs ELSE MapDelete(cfg.LLMs, "ollama")
        llms2 == IF in.geminiKey # ""
                 THEN MapSet(llms1, "gemini", LLMConfig("", in.geminiKey, ""))
                 ELSE MapDelete(llms1, "gemini")
        llms3 == IF in.groqKey # ""
                 THEN MapSet(llms2, "groq", LLMConfig("", in.groqKey, ""))
                 ELSE MapDelete(llms2, "groq")
        configuredProvider ==
            in.ollamaURL # "" \/ ollamaKept \/ in.geminiKey # "" \/ in.groqKey # ""
        withLLMs == [cfg EXCEPT !.LLMs = llms3]
        defaults == IF in.defaultProvider # "" THEN {in.defaultProvider}
                    ELSE IF cfg.DefaultProvider \notin DOMAIN llms3 /\ DOMAIN llms3 # {}
                    THEN DOMAIN llms3
                    ELSE {cfg.DefaultProvider}
    IN  IF ~configuredProvider
        THEN {[cfg |-> withLLMs, err |-> Err("noProviderConfigured", "")]}
        ELSE IF in.defaultProvider # "" /\ in.defaultProvider \notin DOMAIN llms3
        THEN {[cfg |-> withLLMs, err |-> Err("invalidDefaultProvider", in.defaultProvider)]}
        ELSE {[cfg |-> [withLLMs EXCEPT !.DefaultProvider = d],
               err |-> IF in.writeErr = "none" THEN NoErr ELSE Err(in.writeErr, "")] :
                 d \in defaults}

\* toml.DecodeFile into the defaults: the keys the file sets replace the
\* defaults; the provider table of the file is either merged into the default
\* map or takes its place
DecodeFile(cfg, file) ==
    {[DefaultProvider |-> IF file.setsProvider THEN file.provider ELSE cfg.DefaultProvider,
      RequestTimeoutSeconds |-> IF file.setsTimeout THEN file.timeout
                                ELSE cfg.RequestTimeoutSeconds,
      LLMs |-> l] :
        l \in {[n \in DOMAIN cfg.LLMs \cup DOMAIN file.LLMs |->
                   IF n \in DOMAIN file.LLMs THEN file.LLMs[n] ELSE cfg.LLMs[n]],
               file.LLMs}}

\* mutant: the final validation is left out
DefaultProviderSectionUnchecked(cfg) == TRUE

\* part_002 123: _, exists := cfg.LLMs[cfg.DefaultProvider]
DefaultProviderHasSection(cfg) == cfg.DefaultProvider \in DOMAIN cfg.LLMs

\* part_002 122-128: the final validation and the return
Validated(cfg, printed, created) ==
    IF ~DefaultProviderHasSection(cfg)
    THEN LoadResult(ZeroConfig, Err("defaultProviderNoSection", cfg.DefaultProvider),
                    printed, created)
    ELSE LoadResult(cfg, NoErr, printed, created)

\* part_002 80-129: the possible outcomes of Load
Load(in) ==
    LET cfg == defaultConfig
        notFound == <<"Configuration file not found at %s">>
    IN  IF ~in.pathOK
        THEN {LoadResult(ZeroConfig, Err("configPath", ""), <<>>, FALSE)}
        ELSE IF in.stat = "error"
        THEN {LoadResult(ZeroConfig, Err("configAccess", ""), <<>>, FALSE)}
        ELSE IF in.stat = "notExist" THEN
            IF ~in.create
            THEN {LoadResult(ZeroConfig, Err("creationDeclined", ""), notFound, FALSE)}
            ELSE {IF c.err # NoErr
                  THEN LoadResult(ZeroConfig, Err("createConfigFile", ""), notFound,
                                  c.err.kind = "encode")
                  ELSE Validated(c.cfg,
                                 notFound \o <<"Configuration file created successfully at %s">>,
                                 TRUE) :
                    c \in createConfigFileInteractive(cfg, in)}
        ELSE IF ~in.decodeOK
        THEN {LoadResult(ZeroConfig, Err("decodeConfigFile", ""),
                         <<"Loading configuration from %s">>, FALSE)}
        ELSE {Validated(d, <<"Loading configuration from %s">>, FALSE) :
                d \in DecodeFile(cfg, in.file)}

\* what a configuration file may hold
ConfigFiles ==
    {f \in [setsProvider : BOOLEAN, provider : ProviderNames \cup {""},
            setsTimeout : BOOLEAN, timeout : (-1)..MaxTimeoutSeconds, LLMs : LLMMaps] :
        /\ ~f.setsProvider => f.provider = ""
        /\ ~f.setsTimeout => f.timeout = 0}

EmptyFile == [setsProvider |-> FALSE, provider |-> "", setsTimeout |-> FALSE, timeout |-> 0,
              LLMs |-> <<>>]

\* the configuration file exists and decodes to nothing
BasicLoadIn ==
    [kind |-> "load", pathOK |-> TRUE, stat |-> "exists", create |-> FALSE,
     ollamaURL |-> "", geminiKey |-> "", groqKey |-> "", defaultProvider |-> "",
     writeErr |-> "none", decodeOK |-> TRUE, file |-> EmptyFile]

\* the path cannot be determined; the file cannot be accessed; it is missing
\* and the user declines or answers the questions; it exists and decodes or not
LoadInputs ==
    {[BasicLoadIn EXCEPT !.pathOK = FALSE], [BasicLoadIn EXCEPT !.stat = "error"],
     [BasicLoadIn EXCEPT !.stat = "notExist"], [BasicLoadIn EXCEPT !.decodeOK = FALSE]}
    \cup {[BasicLoadIn EXCEPT !.stat = "notExist", !.create = TRUE, !.ollamaURL = u,
                              !.geminiKey = g, !.groqKey = q, !.defaultProvider = d,
                              !.writeErr = w] :
            u \in {"", "http://h"}, g \in {"", "k"}, q \in {"", "k"},
            d \in ProviderNames \cup {""}, w \in {"none", "mkdir", "open", "encode"}}
    \cup {[BasicLoadIn EXCEPT !.file = f] : f \in ConfigFiles}

InitLoad ==
    /\ RunIdle
    /\ BuildIdle
    /\ FilterIdle
    /\ MainIdle
    /\ loadIn \in LoadInputs
    /\ loadOut = <<>>

\* one call of Load
CallLoad ==
    /\ loadOut = <<>>
    /\ \E r \in Load(loadIn) : loadOut' = <<r>>
    /\ UNCHANGED <<runVars, buildVars, filterVars, mainVars, loadIn>>

NextLoad == CallLoad

SpecLoad == InitLoad /\ [][NextLoad]_vars

----------------------------------------------------------------------------
(* main *)

MaxArgs == 2

ConfigWord == <<"c", "o", "n", "f", "i", "g">>

\* a non-flag argument: a word, the path of a script, the subcommand word
MainArgTexts == {<<"x">>, ScriptPath, ConfigWord}

\* strings.Join(args, " ")
RECURSIVE JoinSpace(_)
JoinSpace(args) ==
    IF args = <<>> THEN <<>>
    ELSE IF Len(args) = 1 THEN args[1]
    ELSE args[1] \o <<" ">> \o JoinSpace(Tail(args))

\* part_000 46-48: os.Args[1] is the subcommand word; flags, when given,
\* come before the first non-flag argument
IsConfigSubcommand(in) ==
    /\ ~in.version
    /\ ~in.debugFlag
    /\ in.args # <<>>
    /\ in.args[1] = ConfigWord

\* mutant: a readable file as first argument selects script mode however
\* many arguments follow
SelectModeFirstArgOnly(args, stat, opens) ==
    IF stat = "file" /\ opens
    THEN [mode |-> ModeScript, instruction |-> args[1]]
    ELSE [mode |-> ModeAdHoc, instruction |-> JoinSpace(args)]

\* part_000 105-125: stat is what os.Stat finds at args[0] (nothing, a
\* directory, a file) and opens whether os.Open succeeds on it
SelectMode(args, stat, opens) ==
    IF Len(args) = 1 /\ stat = "file" /\ opens
    THEN [mode |-> ModeScript, instruction |-> args[1]]
    ELSE [mode |-> ModeAdHoc, instruction |-> JoinSpace(args)]

\* mutant: the process reports success whatever Run returned
ExitStatusAlwaysZero(err) == 0

\* part_000 140-146: os.Exit(1) on an error of Run, os.Exit(0) otherwise
ExitStatus(err) == IF err # NoErr THEN 1 ELSE 0

MainIn(version, debugFlag, args, stat, opens, loadOK, cfg, editorOK) ==
    [kind |-> "main", version |-> version, debugFlag |-> debugFlag, args |-> args,
     stat |-> stat, opens |-> opens, loadOK |-> loadOK, cfg |-> cfg, editorOK |-> editorOK]

BasicScript == FileOf(<<"#", NL, "x">>)

\* the command line, the file system and the outcome of Load vary while Run
\* gets its basic inputs; or the command line is one argument and the inputs
\* of Run vary, over the configurations Load can return
MainCases ==
    {[in |-> MainIn(v, d, a, st, o, l, defaultConfig, e),
      file |-> f, stdin |-> BasicStdin, reply |-> BasicReply] :
        v \in BOOLEAN, d \in BOOLEAN, a \in SeqsUpTo(MainArgTexts, MaxArgs),
        st \in {"missing", "dir", "file"}, o \in BOOLEAN, l \in BOOLEAN, e \in BOOLEAN,
        f \in {Unreadable, BasicScript}}
    \cup {[in |-> MainIn(FALSE, d, <<c.inv.arg>>,
                         IF c.inv.mode = ModeScript THEN "file" ELSE "missing",
                         TRUE, TRUE, c.cfg, TRUE),
           file |-> c.inv.file, stdin |-> c.stdin, reply |-> c.reply] :
        d \in BOOLEAN,
        c \in {i \in InputCases :
                 /\ \/ i.inv.mode = ModeAdHoc
                    \/ i.inv.mode = ModeScript /\ i.inv.arg # <<>>
                 /\ DefaultProviderHasSection(i.cfg)}}

InitMain ==
    /\ BuildIdle
    /\ FilterIdle
    /\ LoadIdle
    /\ RunNotStarted
    /\ \E c \in MainCases :
          /\ mainIn = c.in
          /\ scriptFile = c.file
          /\ stdinData = c.stdin
          /\ backendReply = c.reply
    /\ mainPc = "Start"
    /\ exitCode = -1

\* main leaves without calling Run
MainExits(code, out, err) ==
    /\ mainPc' = "Exited"
    /\ exitCode' = code
    /\ stdout' = out
    /\ stderr' = err
    /\ UNCHANGED <<buildVars, filterVars, loadVars, mainIn>>
    /\ UNCHANGED <<envVars, pc, userInstruction, stdinPos, stdinEOF, inputData, finalPrompt,
                   llmClient, ctxErr, llmResponse, genErr, retErr, failedAt,
                   factoryCalls, generateCalls, promptSent>>

\* part_000 46-58: the config subcommand opens the editor and exits
MainConfigSubcommand ==
    /\ mainPc = "Start"
    /\ IsConfigSubcommand(mainIn)
    /\ IF mainIn.editorOK
       THEN MainExits(0, stdout, stderr)
       ELSE MainExits(1, stdout,
                      WriteErrorToStderr(stderr, "Error opening config: %v",
                                         Err("openConfigEditor", "")))

\* part_000 61-64: the version flag prints the version and exits
MainVersion ==
    /\ mainPc = "Start"
    /\ ~IsConfigSubcommand(mainIn)
    /\ mainIn.version
    /\ MainExits(0, stdout \o <<"v", NL>>, stderr)

\* part_000 72-80: config.Load fails, log.Fatalf
MainLoadFails ==
    /\ mainPc = "Start"
    /\ ~IsConfigSubcommand(mainIn)
    /\ ~mainIn.version
    /\ ~mainIn.loadOK
    /\ MainExits(1, stdout,
                 WriteErrorToStderr(
                     LogInfo(stderr, mainIn.debugFlag,
                             "Verbose error loading configuration: %+v"),
                     "Error loading configuration: %v", Err("configLoad", "")))

\* part_000 96-100: no non-flag argument
MainMissingInstruction ==
    /\ mainPc = "Start"
    /\ ~IsConfigSubcommand(mainIn)
    /\ ~mainIn.version
    /\ mainIn.loadOK
    /\ mainIn.args = <<>>
    /\ MainExits(1, stdout,
                 Append(WriteErrorToStderr(stderr, "Error: Missing instruction.", NoErr),
                        Msg("usage", "Usage:", NoErr)))

\* part_000 105-139: choose the mode, build the runner, call Run
MainRun ==
    /\ mainPc = "Start"
    /\ ~IsConfigSubcommand(mainIn)
    /\ ~mainIn.version
    /\ mainIn.loadOK
    /\ mainIn.args # <<>>
    /\ LET sel == SelectMode(mainIn.args, mainIn.stat, mainIn.opens)
       IN  /\ mode' = sel.mode
           /\ instructionOrPath' = sel.instruction
    /\ config' = mainIn.cfg
    /\ debug' = mainIn.debugFlag
    /\ pc' = "ResolveInstruction"
    /\ mainPc' = "Running"
    /\ UNCHANGED <<buildVars, filterVars, loadVars, mainIn, exitCode>>
    /\ UNCHANGED <<scriptFile, stdinData, backendReply, userInstruction, stdinPos, stdinEOF,
                   inputData, finalPrompt, llmClient, ctxErr, llmResponse, genErr, retErr,
                   failedAt, stdout, stderr, factoryCalls, generateCalls, promptSent>>

\* part_000 139-146: Run has returned; report its error and exit
MainExit ==
    /\ mainPc = "Running"
    /\ pc \in {"Done", "Failed"}
    /\ mainPc' = "Exited"
    /\ exitCode' = ExitStatus(retErr)
    /\ stderr' = IF retErr # NoErr
                 THEN WriteErrorToStderr(stderr, "Error: %v", retErr)
                 ELSE stderr
    /\ UNCHANGED <<buildVars, filterVars, loadVars, mainIn>>
    /\ UNCHANGED <<envVars, pc, userInstruction, stdinPos, stdinEOF, inputData, finalPrompt,
                   llmClient, ctxErr, llmResponse, genErr, retErr, failedAt, stdout,
                   factoryCalls, generateCalls, promptSent>>

NextMain ==
    \/ MainConfigSubcommand
    \/ MainVersion
    \/ MainLoadFails
    \/ MainMissingInstruction
    \/ MainRun
    \/ ResolveInstruction
    \/ ReadStdinChunk
    \/ ReadStdinEOF
    \/ ReadStdinError
    \/ InitClient
    \/ DeadlineTimer
    \/ GenerateResponds
    \/ GenerateRejected
    \/ GenerateDeadline
    \/ HandleGenerate
    \/ WriteOutput
    \/ MainExit

SpecMain == InitMain /\ [][NextMain]_vars

----------------------------------------------------------------------------
(* Type invariant *)

TypeOK ==
    /\ pc \in {"ResolveInstruction", "ReadInput", "InitClient", "Dispatch",
               "GenerateReturned", "WriteOutput", "Done", "Failed"}
    /\ ctxErr \in {"none", "nil", "DeadlineExceeded", "Canceled"}
    /\ stdinPos \in 0..Len(stdinData)
    /\ factoryCalls \in 0..1
    /\ generateCalls \in 0..1

----------------------------------------------------------------------------
(* Properties *)

Returned == pc \in {"Done", "Failed"}

\* the error stream holds an error message with this text
ErrorReported(text) ==
    \E i \in 1..Len(stderr) : stderr[i].level = "error" /\ stderr[i].text = text

\* the error stream holds this error message about this error
ErrorReportedWith(text, err) ==
    \E i \in 1..Len(stderr) : stderr[i] = Msg("error", text, err)

AnyErrorReported == \E i \in 1..Len(stderr) : stderr[i].level = "error"

TimedOutReported == ErrorReported("LLM request timed out after %d seconds")

\* C1: whenever Run has returned an error, at whichever step, nothing at all
\* has been written to standard output.
C1_NoOutputOnError == pc = "Failed" => stdout = <<>>

\* C2: after a successful Run, standard output holds the filtered response
\* (Apply of the provider's response, up to the trailing newline), not the raw one.
C2_StdoutIsFilteredResponse ==
    (pc = "Done" /\ ~Apply(llmResponse).panics) =>
        stdout \in {Apply(llmResponse).out, Apply(llmResponse).out \o <<NL>>}

\* C3: after a successful Run, whatever the response (the empty one included),
\* standard output ends with a newline.
C3_StdoutEndsWithNewline ==
    pc = "Done" => (stdout # <<>> /\ stdout[Len(stdout)] = NL)

\* C4: when the deadline passes before the backend answers, Run fails, the
\* error it returns is the deadline error, and the timed-out message is reported.
C4_DeadlineYieldsTimeout ==
    (genErr.kind = "DeadlineExceeded" /\ pc # "GenerateReturned") =>
        /\ pc = "Failed"
        /\ failedAt = "Dispatch"
        /\ retErr.kind = "DeadlineExceeded"
        /\ TimedOutReported
        /\ stdout = <<>>

C4_Witness ==
    /\ pc = "Failed"
    /\ genErr.kind = "DeadlineExceeded"
    /\ config.RequestTimeoutSeconds > 0
    /\ TimedOutReported

\* C5: a Generate call that failed because the provider rejected the request is
\* reported without the timed-out message, however the timer interleaves.
C5_TimedOutOnlyOnDeadline ==
    (pc = "Failed" /\ genErr.kind = "ProviderError") => ~TimedOutReported

\* C6: once the client factory or Generate has been called, standard input has
\* been read to end-of-stream, all of it.
C6_StdinReadBeforeClient ==
    (factoryCalls > 0 \/ generateCalls > 0 \/ llmClient # NoClient \/ ctxErr # "none") =>
        /\ stdinEOF
        /\ stdinPos = Len(stdinData)
        /\ inputData = stdinData

C6_Witness ==
    /\ generateCalls = 1
    /\ Len(stdinData) >= 2
    /\ stdinEOF

\* every character of s is white space
IsBlank(s) == \A i \in 1..Len(s) : IsSpace(s[i])

\* the script is a directive line and nothing else but blank lines
OnlyDirective(content) ==
    /\ HasPrefix(content, <<"#", "!">>)
    /\ \A i \in 2..Len(Split(content)) : IsBlank(Split(content)[i])

\* the invocation carries no instruction
InstructionMissing ==
    \/ mode = ModeAdHoc /\ IsBlank(instructionOrPath)
    \/ /\ mode = ModeScript
       /\ instructionOrPath # <<>>
       /\ scriptFile.readable
       /\ OnlyDirective(scriptFile.content)

\* C7: Generate is never called with an empty instruction; an invocation that
\* carries no instruction makes Run return an error, reported on the error stream.
C7_NoEmptyInstruction ==
    /\ generateCalls > 0 => (userInstruction # <<>> /\ ~IsBlank(userInstruction))
    /\ (InstructionMissing /\ pc # "ResolveInstruction") =>
          /\ pc = "Failed"
          /\ failedAt = "ResolveInstruction"
          /\ retErr # NoErr
          /\ AnyErrorReported
          /\ generateCalls = 0

C7_Witness ==
    /\ pc = "Failed"
    /\ mode = ModeScript
    /\ InstructionMissing
    /\ IndexByte(scriptFile.content, NL) # -1
    /\ AnyErrorReported

\* the text with its first line removed
DropFirstLine(content) == Join(Tail(Split(content)))

\* Run got past instruction resolution in script mode on a readable file
ScriptResolved ==
    /\ mode = ModeScript
    /\ instructionOrPath # <<>>
    /\ scriptFile.readable
    /\ pc # "ResolveInstruction"
    /\ failedAt # "ResolveInstruction"

\* C8 (as stated): for every readable script file the instruction used is the
\* content with its first line removed, trimmed, newline or not, "#!" or not.
C8_FirstLineAlwaysDropped ==
    ScriptResolved => userInstruction = TrimSpace(DropFirstLine(scriptFile.content))

\* C8 (amended): a readable script file that contains a newline gives the
\* content after its first line, trimmed, whether or not that line starts with
\* "#!"; a file without a newline is not stripped: it fails when it starts with
\* "#!" and otherwise is the instruction as a whole, trimmed.
C8_InstructionFromScript ==
    (mode = ModeScript /\ instructionOrPath # <<>> /\ scriptFile.readable
        /\ pc # "ResolveInstruction") =>
        IF \E i \in 1..Len(scriptFile.content) : scriptFile.content[i] = NL
        THEN /\ userInstruction = TrimSpace(DropFirstLine(scriptFile.content))
             /\ (failedAt = "ResolveInstruction") = (userInstruction = <<>>)
        ELSE IF HasPrefix(scriptFile.content, <<"#", "!">>)
        THEN failedAt = "ResolveInstruction" /\ retErr.kind = "shebangOnly"
        ELSE /\ userInstruction = TrimSpace(scriptFile.content)
             /\ (failedAt = "ResolveInstruction") = (userInstruction = <<>>)

C8_Witness ==
    /\ ScriptResolved
    /\ IndexByte(scriptFile.content, NL) > 0
    /\ ~HasPrefix(scriptFile.content, <<"#", "!">>)
    /\ userInstruction # <<>>
    /\ generateCalls = 1

\* the default provider is empty or has no entry in the settings map
DefaultProviderUnconfigured ==
    config.DefaultProvider = "" \/ config.DefaultProvider \notin DOMAIN config.LLMs

\* C9: with an empty or unconfigured default provider the factory returns an
\* error and no client, the error names a non-empty provider that is absent,
\* and Run fails with that error without calling Generate.
C9_UnconfiguredProviderFails ==
    (factoryCalls > 0 /\ DefaultProviderUnconfigured) =>
        /\ llmClient = NoClient
        /\ pc = "Failed"
        /\ failedAt = "InitClient"
        /\ retErr # NoErr
        /\ config.DefaultProvider # "" =>
              retErr = Err("providerNotFound", config.DefaultProvider)
        /\ ErrorReportedWith("Error initializing LLM client: %v", retErr)
        /\ generateCalls = 0

C9_Witness ==
    /\ factoryCalls = 1
    /\ config.DefaultProvider = "gemini"
    /\ DOMAIN config.LLMs = {"other"}
    /\ retErr = Err("providerNotFound", "gemini")

\* the selected provider's required field is empty in its settings entry
RequiredFieldEmpty ==
    /\ config.DefaultProvider \in DOMAIN config.LLMs
    /\ \/ config.DefaultProvider \in {"gemini", "groq"}
          /\ config.LLMs[config.DefaultProvider].APIKey = ""
       \/ config.DefaultProvider = "ollama"
          /\ config.LLMs[config.DefaultProvider].BaseURL = ""

\* C10: the factory constructs no client when the selected provider's required
\* field is empty (API key for gemini and groq, base URL for ollama), whatever
\* the other fields are; Run then fails at client initialisation.
C10_RequiredFieldChecked ==
    /\ (factoryCalls > 0 /\ RequiredFieldEmpty) =>
          /\ llmClient = NoClient
          /\ pc = "Failed"
          /\ failedAt = "InitClient"
          /\ retErr.kind \in {"geminiKeyMissing", "groqKeyMissing", "ollamaURLMissing"}
          /\ generateCalls = 0
    /\ llmClient.provider \in {"gemini", "groq"} => llmClient.apiKey # ""
    /\ llmClient.provider = "ollama" => llmClient.baseURL # ""

C10_Witness ==
    /\ factoryCalls = 1
    /\ config.DefaultProvider = "groq"
    /\ RequiredFieldEmpty
    /\ config.LLMs["groq"].BaseURL # ""
    /\ config.LLMs["groq"].Model # ""
    /\ llmClient = NoClient

\* C11: whenever the factory constructs a client, whichever of the three
\* providers it is for, the client was given the effective timeout: the
\* configured seconds when positive, otherwise 60.
C11_TimeoutPassedToClient ==
    llmClient # NoClient =>
        /\ llmClient.hasTimeout
        /\ llmClient.timeout =
              IF config.RequestTimeoutSeconds > 0 THEN config.RequestTimeoutSeconds ELSE 60

\* C20: in one run the client factory is called at most once and Generate at
\* most once; no step taken after Generate has returned an error calls it
\* again, and a run that has failed takes no further step.
C20_NoRetry ==
    [][ /\ factoryCalls' <= 1
        /\ generateCalls' <= 1
        /\ (genErr # NoErr => generateCalls' = generateCalls /\ factoryCalls' = factoryCalls)
        /\ pc # "Failed" ]_vars

C20_Witness ==
    /\ pc = "Failed"
    /\ failedAt = "Dispatch"
    /\ genErr # NoErr
    /\ factoryCalls = 1
    /\ generateCalls = 1

\* C13: the prompt handed to Generate is the fixed preamble, the delimiter,
\* the task header with the resolved instruction, the delimiter, and the input
\* header with the text read from standard input, in this order, each segment
\* trimmed; the prompt is a function of these segments alone.
C13_PromptLayout ==
    generateCalls > 0 =>
        promptSent = agentPrompt
                        \o Delimiter \o TaskHeader \o TrimSpace(userInstruction)
                        \o Delimiter \o InputHeader \o TrimSpace(stdinData)

C13_Witness ==
    /\ generateCalls = 1
    /\ stdinData # <<>>
    /\ TrimSpace(stdinData) # stdinData
    /\ TrimSpace(stdinData) # <<>>

\* number of places at which p occurs in s
Occurrences(s, p) ==
    Cardinality({k \in 1..(Len(s) - Len(p) + 1) : SubSeq(s, k, k + Len(p) - 1) = p})

\* a context section opens with the delimiter and the context header
ContextSectionStart == Delimiter \o ContextHeader

ContextLabel == <<"C", "o", "n", "t", "e", "x", "t", ":">>

HasText(s) == \E k \in 1..Len(s) : ~IsSpace(s[k])

BuildReturned == buildOut # <<>>

\* C12 as stated: with an empty context the prompt has no context section, and
\* with a non-empty context it has exactly one, right after the preamble.
C12_ContextIffNonEmpty ==
    BuildReturned =>
        LET n == Occurrences(buildOut[1], ContextSectionStart)
        IN  IF buildArgs.contextData = <<>>
            THEN n = 0
            ELSE /\ n = 1
                 /\ HasPrefix(buildOut[1],
                              TrimSpace(buildArgs.agentPrompt) \o ContextSectionStart)

\* C12 amended: for segments none of which spells the context label, a context
\* that is empty or only whitespace gives a prompt with no context section, and
\* a context with a non-whitespace character gives exactly one context
\* section, holding the trimmed context, after the preamble and before the
\* task section.
C12_ContextSection ==
    (/\ BuildReturned
     /\ \A f \in DOMAIN buildArgs : Occurrences(buildArgs[f], ContextLabel) = 0)
    =>
        LET n == Occurrences(buildOut[1], ContextSectionStart)
        IN  IF HasText(buildArgs.contextData)
            THEN /\ n = 1
                 /\ HasPrefix(buildOut[1],
                              TrimSpace(buildArgs.agentPrompt) \o ContextSectionStart
                                 \o TrimSpace(buildArgs.contextData)
                                 \o Delimiter \o TaskHeader)
            ELSE /\ n = 0
                 /\ HasPrefix(buildOut[1],
                              TrimSpace(buildArgs.agentPrompt) \o Delimiter \o TaskHeader)

C12_Witness ==
    /\ BuildReturned
    /\ HasText(buildArgs.contextData)
    /\ TrimSpace(buildArgs.contextData) # buildArgs.contextData
    /\ \A f \in DOMAIN buildArgs : Occurrences(buildArgs[f], ContextLabel) = 0
    /\ Occurrences(buildOut[1], ContextSectionStart) = 1

FilterApplied == filterOut # <<>>

InLines == Split(filterInput)

FirstStartsFence == HasPrefix(TrimSpace(InLines[1]), Fence)

\* the later lines (numbered from 1) that are exactly the fence
ExactClosers == {j \in 2..Len(InLines) : InLines[j] = Fence}

\* the later lines that are the fence once trimmed
TrimmedClosers == {j \in 2..Len(InLines) : TrimSpace(InLines[j]) = Fence}

Last(S) == CHOOSE m \in S : \A k \in S : k <= m

\* the lines strictly between the first line and line j, joined by newline
LinesBetween(j) == Join([k \in 1..(j - 2) |-> InLines[k + 1]])

Returns(text) == [panics |-> FALSE, out |-> text]

\* C14 as stated: with a fenced first line and a later line that is exactly
\* the fence, Apply returns the lines strictly between the first line and the
\* last such line, joined by newline.
C14_LinesBetweenExactFences ==
    (FilterApplied /\ Len(InLines) >= 2 /\ FirstStartsFence /\ ExactClosers # {})
    => filterOut[1] = Returns(LinesBetween(Last(ExactClosers)))

\* C14 amended: with a fenced first line and a later line that, trimmed, is the
\* fence, Apply returns the lines strictly between the first line and the last
\* such line, joined by newline, and after them one newline when the input ends
\* with a newline and those lines are not empty text; the first line, the
\* closing line and all lines after it are gone, however many fence lines
\* lie between.
C14_LinesBetweenFences ==
    (FilterApplied /\ Len(InLines) >= 2 /\ FirstStartsFence /\ TrimmedClosers # {})
    => LET content == LinesBetween(Last(TrimmedClosers))
       IN  filterOut[1] =
              Returns(IF HasSuffix(filterInput, <<NL>>) /\ content # <<>>
                      THEN content \o <<NL>>
                      ELSE content)

C14_Witness ==
    /\ FilterApplied
    /\ Len(InLines) >= 2
    /\ FirstStartsFence
    /\ Cardinality(TrimmedClosers) >= 2
    /\ Last(TrimmedClosers) < Len(InLines)
    /\ filterOut[1].out # <<>>

\* C15: an input whose first line starts with the fence and that has no later
\* fence line, an unclosed block, is returned unchanged.
C15_UnclosedUnchanged ==
    (FilterApplied /\ FirstStartsFence /\ TrimmedClosers = {})
    => filterOut[1] = Returns(filterInput)

\* C16: an input of fewer than two lines, or whose first line (trimmed) does
\* not start with the fence, is returned unchanged, and applying the filter to
\* the result returns the same again.
C16_FixedPoint ==
    (FilterApplied /\ (Len(InLines) < 2 \/ ~FirstStartsFence))
    => /\ filterOut[1] = Returns(filterInput)
       /\ Len(filterOut) = 2 => filterOut[2] = filterOut[1]

C16_Witness ==
    /\ Len(filterOut) = 2
    /\ Len(InLines) >= 2
    /\ ~FirstStartsFence
    /\ TrimmedClosers # {}

\* C17: when the first line starts with the fence, tagged or not, and the
\* closing fence is the second line, Apply returns the empty string.
C17_AdjacentFencesGiveEmpty ==
    (FilterApplied /\ Len(InLines) >= 2 /\ FirstStartsFence /\ TrimmedClosers = {2})
    => filterOut[1] = Returns(<<>>)

C17_Witness ==
    /\ FilterApplied
    /\ InLines[1] = Fence \o <<"j">>
    /\ TrimmedClosers = {2}
    /\ Len(InLines) > 2

\* the text ends with exactly one newline
EndsWithOneNewline(text) ==
    /\ HasSuffix(text, <<NL>>)
    /\ ~HasSuffix(text, <<NL, NL>>)

\* C18 as stated: when the input ends with a newline and the content between
\* the fences is not empty the result ends with exactly one newline; otherwise
\* the result is the content with no newline added.
C18_ExactlyOneNewline ==
    (FilterApplied /\ Len(InLines) >= 2 /\ FirstStartsFence /\ TrimmedClosers # {})
    => LET content == LinesBetween(Last(TrimmedClosers))
       IN  IF HasSuffix(filterInput, <<NL>>) /\ content # <<>>
           THEN ~filterOut[1].panics /\ EndsWithOneNewline(filterOut[1].out)
           ELSE filterOut[1] = Returns(content)

\* C18 amended: when the input ends with a newline and the content between the
\* fences is not empty, the result is the content with exactly one newline
\* added after it; otherwise the result is the content with nothing added.
C18_OneNewlineAdded ==
    (FilterApplied /\ Len(InLines) >= 2 /\ FirstStartsFence /\ TrimmedClosers # {})
    => LET content == LinesBetween(Last(TrimmedClosers))
           out == filterOut[1].out
       IN  /\ ~filterOut[1].panics
           /\ SubSeq(out, 1, Len(content)) = content
           /\ IF HasSuffix(filterInput, <<NL>>) /\ Len(content) > 0
              THEN /\ Len(out) = Len(content) + 1
                   /\ out[Len(out)] = NL
              ELSE Len(out) = Len(content)

C18_Witness ==
    /\ FilterApplied
    /\ Len(InLines) >= 2
    /\ FirstStartsFence
    /\ TrimmedClosers # {}
    /\ HasSuffix(filterInput, <<NL>>)
    /\ HasSuffix(LinesBetween(Last(TrimmedClosers)), <<NL>>)
    /\ HasSuffix(filterOut[1].out, <<NL, NL>>)

NoFenceLine(text) == \A k \in 1..Len(Split(text)) : Split(text)[k] # Fence

\* C19: a text none of whose lines is the fence, put between an opening fence
\* line and a closing fence line, comes back from Apply as it was, with one
\* newline after it exactly when the wrapped input ended with a newline and
\* the text is not empty.
C19_RoundTrip ==
    (FilterApplied /\ filterCase.wrapped /\ NoFenceLine(filterCase.text))
    => filterOut[1] =
          Returns(IF filterCase.newline /\ filterCase.text # <<>>
                  THEN filterCase.text \o <<NL>>
                  ELSE filterCase.text)

C19_Witness ==
    /\ FilterApplied
    /\ filterCase.wrapped
    /\ NoFenceLine(filterCase.text)
    /\ Len(Split(filterCase.text)) >= 2
    /\ filterCase.newline
    /\ filterOut[1].out = filterCase.text \o <<NL>>

\* the step Run has reached: the step it is at, or the one it failed at
StepReached == IF pc = "Failed" THEN failedAt ELSE pc

StepRank(step) ==
    CASE step = "ResolveInstruction" -> 0
      [] step = "ReadInput" -> 1
      [] step = "InitClient" -> 2
      [] step \in {"Dispatch", "GenerateReturned"} -> 3
      [] step = "WriteOutput" -> 4
      [] step = "Done" -> 5

IsInfo(m) == m.level = "info"

\* the texts of the informational messages on the error stream, in order
InfoTexts ==
    LET infos == SelectSeq(stderr, IsInfo)
    IN  [k \in 1..Len(infos) |-> infos[k].text]

\* the informational messages of the steps reached, in the order Run logs them
InfoTextsOfStepsReached ==
    LET n == StepRank(StepReached)
    IN  (IF n >= 1 /\ mode = ModeScript
         THEN <<"Using instruction from script '%s'">> ELSE <<>>)
        \o (IF n >= 1 THEN <<"Reading from stdin...">> ELSE <<>>)
        \o (IF n >= 2 THEN <<"Finished reading stdin (%d bytes)",
                             "Initializing LLM client for provider: %s">> ELSE <<>>)
        \o (IF n >= 3 THEN <<"Sending request to LLM...">> ELSE <<>>)
        \o (IF n >= 4 THEN <<"Received LLM response">> ELSE <<>>)
        \o (IF n >= 5 THEN <<"Done.">> ELSE <<>>)

\* C21: with debug off the error stream never holds an informational message;
\* with debug on it holds the informational messages of every step reached;
\* and a failed run has an error message as the last thing on the error
\* stream, with debug on or off.
C21_InfoOnlyInDebug ==
    /\ InfoTexts = IF debug THEN InfoTextsOfStepsReached ELSE <<>>
    /\ pc = "Failed" => stderr # <<>> /\ stderr[Len(stderr)].level = "error"

C21_Witness ==
    /\ debug
    /\ mode = ModeScript
    /\ pc = "Done"
    /\ Len(InfoTexts) = 7
    /\ ~AnyErrorReported

\* C26: once instruction resolution has failed the run is over and nothing
\* else was touched: no byte of standard input was read, the client factory
\* and Generate were not called, and standard output is unchanged.
C26_ResolveFailureTouchesNothing ==
    failedAt = "ResolveInstruction" =>
        /\ pc = "Failed"
        /\ stdinPos = 0
        /\ ~stdinEOF
        /\ inputData = <<>>
        /\ llmClient = NoClient
        /\ factoryCalls = 0
        /\ generateCalls = 0
        /\ stdout = <<>>

C26_Witness ==
    /\ failedAt = "ResolveInstruction"
    /\ mode = ModeScript
    /\ scriptFile = Unreadable
    /\ stdinData # <<>>
    /\ ErrorReported("Error determining instruction: %v")

\* C25: Run moves only along ResolveInstruction, ReadInput, BuildPrompt,
\* InitClient, Dispatch, FilterOutput, WriteOutput, Done, or from a step to
\* Failed; no step is skipped or repeated, and nothing follows Done or Failed.
\* BuildPrompt lies on the move from ReadInput to InitClient (the prompt is
\* built there) and FilterOutput on the move from Dispatch to WriteOutput (the
\* response handed on is the filtered one).
C25_StepOrder ==
    [][ /\ pc \notin {"Done", "Failed"}
        /\ pc' # pc =>
              \/ pc' = "Failed"
              \/ pc = "ResolveInstruction" /\ pc' = "ReadInput"
              \/ /\ pc = "ReadInput" /\ pc' = "InitClient"
                 /\ finalPrompt' = Build(agentPrompt, userInstruction, inputData', <<>>)
              \/ pc = "InitClient" /\ pc' = "Dispatch"
              \/ pc = "Dispatch" /\ pc' = "GenerateReturned"
              \/ /\ pc = "GenerateReturned" /\ pc' = "WriteOutput"
                 /\ llmResponse' = Apply(llmResponse).out
              \/ pc = "WriteOutput" /\ pc' = "Done" ]_vars

\* C27: Apply returns a string for every input: whenever it takes the slice
\* of the lines from index 1 to the closing-fence index, that index is at
\* least 1, and no call faults.
C27_ApplyTotal ==
    FilterApplied =>
        /\ \A k \in 1..Len(filterOut) : ~filterOut[k].panics
        /\ (/\ Len(InLines) >= 2
            /\ OpensFence(TrimSpace(InLines[1]))
            /\ LastFenceIndex(InLines) # -1)
           => LastFenceIndex(InLines) >= 1

\* C28: the deadline Run sets when it dispatches is that of the effective
\* timeout, the configured seconds when positive and 60 seconds otherwise, so
\* the context has not expired at the moment Generate is called.
C28_DeadlineIsEffectiveTimeout ==
    [][ (pc = "InitClient" /\ pc' = "Dispatch") =>
           /\ ctxErr' = WithTimeout(IF config.RequestTimeoutSeconds > 0
                                    THEN config.RequestTimeoutSeconds
                                    ELSE 60)
           /\ ctxErr' # "DeadlineExceeded" ]_vars

SupportedProviders == {"gemini", "ollama", "groq"}

\* C29: once the factory has been called, a client exists only for a default
\* provider named gemini, ollama or groq and is the client of that provider;
\* another name that has a settings entry gives the unsupported-provider
\* error, and a name without an entry gives the not-found error, supported or
\* not.
C29_OnlyKnownProviders ==
    factoryCalls = 1 =>
        LET name == config.DefaultProvider
        IN  /\ llmClient # NoClient =>
                  /\ name \in SupportedProviders
                  /\ llmClient.provider = name
            /\ (name \notin SupportedProviders \cup {""} /\ name \in DOMAIN config.LLMs)
               => /\ llmClient = NoClient
                  /\ failedAt = "InitClient"
                  /\ retErr = Err("unsupportedProvider", name)
            /\ (name # "" /\ name \notin DOMAIN config.LLMs)
               => /\ llmClient = NoClient
                  /\ failedAt = "InitClient"
                  /\ retErr = Err("providerNotFound", name)

C29_Witness ==
    /\ factoryCalls = 1
    /\ config.DefaultProvider = "other"
    /\ "other" \in DOMAIN config.LLMs
    /\ retErr = Err("unsupportedProvider", "other")
    /\ ErrorReported("Error initializing LLM client: %v")

\* C30: Build gives the same prompt for the segments as given and for the
\* same segments already trimmed, and for a context of whitespace only it
\* gives the prompt of an empty context: preamble, task section, input section.
C30_WhitespaceInsensitive ==
    Len(buildOut) = 2 =>
        /\ buildOut[1] = buildOut[2]
        /\ ~HasText(buildArgs.contextData) =>
              buildOut[1] = Stripped(buildArgs.agentPrompt)
                               \o Delimiter \o TaskHeader \o Stripped(buildArgs.userTask)
                               \o Delimiter \o InputHeader \o Stripped(buildArgs.inputData)

C30_Witness ==
    /\ Len(buildOut) = 2
    /\ Stripped(buildArgs.agentPrompt) # buildArgs.agentPrompt
    /\ Stripped(buildArgs.userTask) # buildArgs.userTask
    /\ HasText(buildArgs.userTask)
    /\ Stripped(buildArgs.inputData) # buildArgs.inputData
    /\ buildArgs.contextData # <<>>
    /\ ~HasText(buildArgs.contextData)

LoadReturned == loadOut # <<>>

\* C22: a Config that Load returns without error, decoded from the file or
\* made by the interactive creation, names a default provider that is a key
\* of its provider map.
C22_DefaultProviderConfigured ==
    (LoadReturned /\ loadOut[1].err = NoErr)
    => loadOut[1].cfg.DefaultProvider \in DOMAIN loadOut[1].cfg.LLMs

C22_Witness ==
    /\ LoadReturned
    /\ loadOut[1].err = NoErr
    /\ loadOut[1].created
    /\ loadIn.defaultProvider = "gemini"
    /\ loadOut[1].cfg.DefaultProvider = "gemini"
    /\ DOMAIN loadOut[1].cfg.LLMs = {"ollama", "gemini"}

\* the arguments with one space between each two, built from the right
RECURSIVE SpaceJoined(_)
SpaceJoined(args) ==
    IF Len(args) = 0 THEN <<>>
    ELSE IF Len(args) = 1 THEN args[1]
    ELSE SpaceJoined(SubSeq(args, 1, Len(args) - 1)) \o <<" ">> \o args[Len(args)]

\* the one argument names an existing file that is no directory and opens
OneReadableFile ==
    /\ Len(mainIn.args) = 1
    /\ mainIn.stat = "file"
    /\ mainIn.opens

RunStarted == pc # "Idle"

\* what main has done once it has left its start, by the rule for the modes
ModeChosenByRule ==
    IF mainIn.args = <<>>
    THEN /\ mainPc = "Exited"
         /\ exitCode > 0
         /\ ~RunStarted
    ELSE /\ RunStarted
         /\ IF OneReadableFile
            THEN mode = ModeScript /\ instructionOrPath = mainIn.args[1]
            ELSE mode = ModeAdHoc /\ instructionOrPath = SpaceJoined(mainIn.args)

\* C23 as stated: main runs in script mode on the path exactly when the one
\* argument is a readable file, in direct-instruction mode on the joined
\* arguments in every other case with an argument, and exits non-zero
\* without running when there is no argument.
C23_ModeSelection == mainPc \in {"Running", "Exited"} => ModeChosenByRule

\* main gets as far as looking at the arguments
ReachesModeSelection ==
    /\ ~(/\ ~mainIn.version /\ ~mainIn.debugFlag
         /\ mainIn.args # <<>> /\ mainIn.args[1] = ConfigWord)
    /\ ~mainIn.version
    /\ mainIn.loadOK

\* C23 amended: when the command is not the config subcommand, the version
\* flag is not given and the configuration loads, main follows the rule for
\* the modes; otherwise it exits without running the pipeline.
C23_ModeSelectionWhenReached ==
    mainPc \in {"Running", "Exited"} =>
        IF ReachesModeSelection
        THEN ModeChosenByRule
        ELSE mainPc = "Exited" /\ ~RunStarted

C23_Witness ==
    /\ mainPc = "Running"
    /\ ReachesModeSelection
    /\ OneReadableFile
    /\ mode = ModeScript
    /\ instructionOrPath = ScriptPath
    /\ mainIn.debugFlag

\* the error Run returned is named in an error message on the error stream
ReturnedErrorReported ==
    \E k \in 1..Len(stderr) : stderr[k].level = "error" /\ stderr[k].err = retErr

\* C24: when Run has returned an error, an error message about it is on the
\* error stream before main does anything, and main then exits non-zero; when
\* Run has returned nil main exits with status 0.
C24_ErrorsSurfaced ==
    /\ (pc = "Failed" /\ mainPc = "Running") => retErr # NoErr /\ ReturnedErrorReported
    /\ (pc = "Failed" /\ mainPc = "Exited") => exitCode > 0
    /\ (pc = "Done" /\ mainPc = "Exited") => retErr = NoErr /\ exitCode = 0

C24_Witness ==
    /\ pc = "Failed"
    /\ failedAt = "WriteOutput"
    /\ mainPc = "Exited"
    /\ exitCode = 1
    /\ ErrorReportedWith("Error: %v", retErr)

====
